---- MODULE Spec2Model ----
(***************************************************************************)
(* Model of metaopt.core.worker.transformer: the Transformer hierarchy     *)
(* (Identity, Compose), TransformedDimension, TransformedSpace and         *)
(* build_required_space.                                                   *)
(***************************************************************************)
EXTENDS Integers, Sequences, FiniteSets, TLC

\* Points of a dimension are 0 .. NPoints-1.
NPoints == 4
\* Longest list of transformers handed to Compose in Spec.
MaxLen == 3

Points == 0 .. (NPoints - 1)
Shapes == {<<>>, <<2>>}
Whats == {"x", "Real(0, 3)"}

VARIABLES
    transformers,     \* the caller-owned list handed to Compose(...)
    given,            \* the contents of that list when the constructor was called
    composed,         \* the Compose object the constructor returned
    result,           \* the last call on an object: [op, arg, val]
    prev,             \* the call before it
    original_space,   \* the original Space: its dimensions, in values() order
    requirements,     \* the requirements argument of build_required_space
    space,            \* the TransformedSpace: its dimensions, in values() order
    chains,           \* per registered dimension, the list its Compose was built from
    status            \* how the TransformedSpace came about

vars == <<transformers, given, composed, result, prev,
          original_space, requirements, space, chains, status>>

composeVars == <<transformers, given, composed>>
spaceVars == <<original_space, requirements, space, chains, status>>

(***************************************************************************)
(* Transformer instances.  An instance is a record whose cls is its class; *)
(* a Compose instance also holds apply and composition.                    *)
(***************************************************************************)
\* The concrete leaf classes: Identity, and four subclasses of Transformer
\* standing for what a caller may put in the list.
LeafClasses == {"Identity", "Shift", "Mirror", "Swap", "Quantize"}

New(cls) == [cls |-> cls]

NoObject == [cls |-> "None"]

\* Transformer.infer_target_shape: the base class keeps the shape.
Transformer_infer_target_shape(self, shape) == shape

\* Transformer.repr_format: "{}({})".format(self.__class__.__name__, what)
Transformer_repr_format(self, what) == self.cls \o "(" \o what \o ")"

\* Identity
Identity_target_type == "invariant"

Identity_transform(self, point) == point

Identity_reverse(self, transformed_point) == transformed_point

Identity_repr_format_wrapping(self, what) == Transformer_repr_format(self, what)

Identity_repr_format(self, what) == what

\* The other leaf classes: each overrides transform, reverse and target_type,
\* Mirror also infer_target_shape.
Leaf_target_type(self) ==
    CASE self.cls = "Shift" -> "real"
      [] self.cls = "Mirror" -> "integer"
      [] self.cls = "Swap" -> "invariant"
      [] self.cls = "Quantize" -> "categorical"

Leaf_transform(self, point) ==
    CASE self.cls = "Shift" -> (point + 1) % NPoints
      [] self.cls = "Mirror" -> (NPoints - 1) - point
      [] self.cls = "Swap" -> IF point = 0 THEN 1 ELSE IF point = 1 THEN 0 ELSE point
      [] self.cls = "Quantize" -> point - (point % 2)

Leaf_reverse(self, transformed_point) ==
    CASE self.cls = "Shift" -> (transformed_point + NPoints - 1) % NPoints
      [] self.cls = "Mirror" -> (NPoints - 1) - transformed_point
      [] self.cls = "Swap" -> IF transformed_point = 0 THEN 1
                              ELSE IF transformed_point = 1 THEN 0
                              ELSE transformed_point
      [] self.cls = "Quantize" -> transformed_point

Leaf_infer_target_shape(self, shape) ==
    IF self.cls = "Mirror" THEN Append(shape, 2)
    ELSE Transformer_infer_target_shape(self, shape)

(***************************************************************************)
(* Dynamic dispatch of the five methods, and Compose.                      *)
(***************************************************************************)
RECURSIVE transform(_, _), reverse(_, _), infer_target_shape(_, _),
          repr_format(_, _), target_type(_), Compose_init(_)

\* Compose.__init__(transformers): the object built, and the list as the
\* constructor leaves it (pop() and the recursive call mutate the caller's list).
Compose_init_copying(lst) ==
    LET n == Len(lst)
        apply == IF n > 0 THEN lst[n] ELSE New("Identity")
        rest == IF n > 0 THEN SubSeq(lst, 1, n - 1) ELSE lst
    IN  [self |-> [cls |-> "Compose", apply |-> apply,
                   composition |-> IF rest # <<>> THEN Compose_init(rest).self
                                   ELSE New("Identity")],
         transformers |-> lst]

Compose_init(lst) ==
    LET n == Len(lst)
        \* try: self.apply = transformers.pop()  except IndexError: Identity()
        apply == IF n > 0 THEN lst[n] ELSE New("Identity")
        rest == IF n > 0 THEN SubSeq(lst, 1, n - 1) ELSE lst
    IN  IF rest # <<>>
        THEN LET inner == Compose_init(rest)
             IN  [self |-> [cls |-> "Compose", apply |-> apply,
                            composition |-> inner.self],
                  transformers |-> inner.transformers]
        ELSE [self |-> [cls |-> "Compose", apply |-> apply,
                        composition |-> New("Identity")],
              transformers |-> rest]

Compose_transform_outer_first(self, point) ==
    LET p == transform(self.apply, point)
    IN  transform(self.composition, p)

Compose_transform(self, point) ==
    LET p == transform(self.composition, point)
    IN  transform(self.apply, p)

Compose_reverse_inner_first(self, transformed_point) ==
    LET p == reverse(self.composition, transformed_point)
    IN  reverse(self.apply, p)

Compose_reverse(self, transformed_point) ==
    LET p == reverse(self.apply, transformed_point)
    IN  reverse(self.composition, p)

Compose_infer_target_shape(self, shape) ==
    LET s == infer_target_shape(self.composition, shape)
    IN  infer_target_shape(self.apply, s)

Compose_repr_format(self, what) ==
    repr_format(self.apply, repr_format(self.composition, what))

Compose_target_type_first(self) ==
    LET type_before == target_type(self.composition)
        type_after == target_type(self.apply)
    IN  IF type_before # "invariant" THEN type_before ELSE type_after

Compose_target_type(self) ==
    LET type_before == target_type(self.composition)
        type_after == target_type(self.apply)
    IN  IF type_after # "invariant" THEN type_after ELSE type_before

transform(t, point) ==
    CASE t.cls = "Identity" -> Identity_transform(t, point)
      [] t.cls = "Compose" -> Compose_transform(t, point)
      [] OTHER -> Leaf_transform(t, point)

reverse(t, transformed_point) ==
    CASE t.cls = "Identity" -> Identity_reverse(t, transformed_point)
      [] t.cls = "Compose" -> Compose_reverse(t, transformed_point)
      [] OTHER -> Leaf_reverse(t, transformed_point)

infer_target_shape(t, shape) ==
    CASE t.cls = "Identity" -> Transformer_infer_target_shape(t, shape)
      [] t.cls = "Compose" -> Compose_infer_target_shape(t, shape)
      [] OTHER -> Leaf_infer_target_shape(t, shape)

repr_format(t, what) ==
    CASE t.cls = "Identity" -> Identity_repr_format(t, what)
      [] t.cls = "Compose" -> Compose_repr_format(t, what)
      [] OTHER -> Transformer_repr_format(t, what)

target_type(t) ==
    CASE t.cls = "Identity" -> Identity_target_type
      [] t.cls = "Compose" -> Compose_target_type(t)
      [] OTHER -> Leaf_target_type(t)

(***************************************************************************)
(* Lists of transformer instances of length at most n.                     *)
(***************************************************************************)
Lists(n) == UNION {[1 .. k -> {New(c) : c \in LeafClasses}] : k \in 0 .. n}

NoResult == [op |-> "none", arg |-> 0, val |-> 0]

Call(op, arg, val) ==
    /\ prev' = result
    /\ result' = [op |-> op, arg |-> arg, val |-> val]

(***************************************************************************)
(* Spec: a caller builds one Compose from a list and calls its methods.    *)
(***************************************************************************)
Init ==
    /\ transformers \in Lists(MaxLen)
    /\ given = transformers
    /\ composed = NoObject
    /\ result = NoResult
    /\ prev = NoResult
    /\ original_space = <<>>
    /\ requirements = [isList |-> TRUE, value |-> <<>>]
    /\ space = <<>>
    /\ chains = <<>>
    /\ status = "unused"

Construct ==
    /\ composed.cls = "None"
    /\ LET built == Compose_init(transformers)
       IN  /\ composed' = built.self
           /\ transformers' = built.transformers
    /\ UNCHANGED <<given, result, prev, spaceVars>>

CallTransform ==
    /\ composed.cls = "Compose"
    /\ \E x \in Points : Call("transform", x, transform(composed, x))
    /\ UNCHANGED <<composeVars, spaceVars>>

CallReverse ==
    /\ composed.cls = "Compose"
    /\ \E y \in Points : Call("reverse", y, reverse(composed, y))
    /\ UNCHANGED <<composeVars, spaceVars>>

CallInferTargetShape ==
    /\ composed.cls = "Compose"
    /\ \E s \in Shapes : Call("infer_target_shape", s, infer_target_shape(composed, s))
    /\ UNCHANGED <<composeVars, spaceVars>>

CallReprFormat ==
    /\ composed.cls = "Compose"
    /\ \E w \in Whats : Call("repr_format", w, repr_format(composed, w))
    /\ UNCHANGED <<composeVars, spaceVars>>

GetTargetType ==
    /\ composed.cls = "Compose"
    /\ Call("target_type", 0, target_type(composed))
    /\ UNCHANGED <<composeVars, spaceVars>>

Next ==
    \/ Construct
    \/ CallTransform
    \/ CallReverse
    \/ CallInferTargetShape
    \/ CallReprFormat
    \/ GetTargetType

Spec == Init /\ [][Next]_vars

(***************************************************************************)
(* The original Space and its Dimensions (metaopt.algo.space): a Dimension *)
(* has a name, a type and an interval; the points it contains are those of *)
(* its interval.                                                           *)
(***************************************************************************)
\* Most dimensions an original space holds in SpecSpace.
MaxDims == 2

Recognized == {"real", "integer", "categorical"}

DimCatalog ==
    { [name |-> "a", type |-> "real", low |-> 0, high |-> NPoints - 1],
      [name |-> "b", type |-> "integer", low |-> 1, high |-> 2],
      [name |-> "c", type |-> "categorical", low |-> 0, high |-> 1],
      [name |-> "d", type |-> "unknown", low |-> 0, high |-> 2] }

\* A Space maps names to dimensions: no two dimensions share a name.
OriginalSpaces ==
    UNION { {sp \in [1 .. k -> DimCatalog] :
                \A i, j \in 1 .. k : i # j => sp[i].name # sp[j].name}
            : k \in 0 .. MaxDims }

Dimension_interval(dim) == <<dim.low, dim.high>>

Dimension_contains(dim, point) == dim.low <= point /\ point <= dim.high

\* Space.values(): the dimensions in insertion order.
Space_values(self) == self

\* Space.register(dimension): self[dimension.name] = dimension
Space_register(self, dimension) ==
    IF \E i \in 1 .. Len(self) : self[i].original_dimension.name
                                    = dimension.original_dimension.name
    THEN [i \in 1 .. Len(self) |->
             IF self[i].original_dimension.name = dimension.original_dimension.name
             THEN dimension ELSE self[i]]
    ELSE Append(self, dimension)

(***************************************************************************)
(* TransformedDimension                                                    *)
(***************************************************************************)
TransformedDimension_init(transformer, original_dimension) ==
    [original_dimension |-> original_dimension, transformer |-> transformer]

TransformedDimension_transform(self, point) == transform(self.transformer, point)

TransformedDimension_reverse(self, transformed_point) ==
    reverse(self.transformer, transformed_point)

TransformedDimension_interval(self) ==
    LET iv == Dimension_interval(self.original_dimension)
    IN  <<TransformedDimension_transform(self, iv[1]),
          TransformedDimension_transform(self, iv[2])>>

TransformedDimension_contains_unreversed(self, point) ==
    Dimension_contains(self.original_dimension, point)

TransformedDimension_contains(self, point) ==
    LET orig_point == TransformedDimension_reverse(self, point)
    IN  Dimension_contains(self.original_dimension, orig_point)

TransformedDimension_name(self) == self.original_dimension.name

TransformedDimension_type_of_transformer(self) == target_type(self.transformer)

TransformedDimension_type(self) ==
    LET type_ == target_type(self.transformer)
    IN  IF type_ # "invariant" THEN type_ ELSE self.original_dimension.type

(***************************************************************************)
(* TransformedSpace                                                        *)
(***************************************************************************)
TransformedSpace_transform_by_first(self, point) ==
    LET dims == Space_values(self)
    IN  [i \in 1 .. Len(dims) |-> TransformedDimension_transform(dims[1], point[i])]

TransformedSpace_transform(self, point) ==
    LET dims == Space_values(self)
    IN  [i \in 1 .. Len(dims) |-> TransformedDimension_transform(dims[i], point[i])]

TransformedSpace_reverse(self, transformed_point) ==
    LET dims == Space_values(self)
    IN  [i \in 1 .. Len(dims) |->
            TransformedDimension_reverse(dims[i], transformed_point[i])]

(***************************************************************************)
(* build_required_space                                                    *)
(***************************************************************************)
\* What a caller may pass as requirements: one requirement, or a list.
RequirementValues ==
    { [isList |-> FALSE, value |-> "real"],
      [isList |-> TRUE, value |-> <<>>],
      [isList |-> TRUE, value |-> <<"invariant">>],
      [isList |-> TRUE, value |-> <<"real">>],
      [isList |-> TRUE, value |-> <<"real", "integer">>] }

\* requirements if isinstance(requirements, list) else [requirements]
AsList(reqs) == IF reqs.isList THEN reqs.value ELSE <<reqs.value>>

RECURSIVE ForRequirements(_, _, _, _), ForDimensions(_, _, _, _, _)

\* The inner loop, from the i-th requirement on, with the running list of
\* transformers and the running type_.
ForRequirements(reqs, i, ts, type_) ==
    IF i > Len(reqs)
    THEN [raised |-> "none", message |-> "", transformers |-> ts]
    ELSE IF type_ \notin Recognized
    THEN [raised |-> "TypeError", message |-> "Unsupported dimension type '" \o type_ \o "'", transformers |-> ts]
    \* the three recognized branches are `pass`: nothing is appended
    ELSE IF Len(ts) = 0
    \* transformers[-1] of an empty list
    THEN [raised |-> "IndexError", message |-> "", transformers |-> ts]
    ELSE LET last_type == target_type(ts[Len(ts)])
         IN  ForRequirements(reqs, i + 1, ts,
                             IF last_type # "invariant" THEN last_type ELSE type_)

\* The outer loop, from the k-th dimension on; space is the TransformedSpace
\* so far and lists the transformers lists handed to Compose so far.
ForDimensions(reqs, dims, k, sp, lists) ==
    IF k > Len(dims)
    THEN [raised |-> "none", message |-> "", space |-> sp, lists |-> lists]
    ELSE LET r == ForRequirements(reqs, 1, <<>>, dims[k].type)
         IN  IF r.raised # "none"
             THEN [raised |-> r.raised, message |-> r.message,
                   space |-> <<>>, lists |-> <<>>]
             ELSE ForDimensions(reqs, dims, k + 1,
                      Space_register(sp,
                          TransformedDimension_init(Compose_init(r.transformers).self,
                                                    dims[k])),
                      Append(lists, r.transformers))

build_required_space(reqs, original) ==
    ForDimensions(AsList(reqs), Space_values(original), 1, <<>>, <<>>)

(***************************************************************************)
(* SpecSpace: a TransformedSpace is obtained from build_required_space, or *)
(* by registering a TransformedDimension per original dimension, and one   *)
(* of its methods, or of its dimensions' methods, is called.  The objects  *)
(* do not change once built, so one call is recorded per behaviour.        *)
(***************************************************************************)
\* The lists a caller composes for a dimension it registers itself.
SampleChains ==
    { <<>>,
      <<New("Swap")>>,
      <<New("Shift")>>,
      <<New("Mirror"), New("Identity")>>,
      <<New("Shift"), New("Quantize"), New("Swap")>> }

NoRequirements == [isList |-> TRUE, value |-> <<>>]

InitSpace ==
    /\ transformers = <<>>
    /\ given = <<>>
    /\ composed = NoObject
    /\ result = NoResult
    /\ prev = NoResult
    /\ original_space \in OriginalSpaces
    /\ requirements = NoRequirements
    /\ space = <<>>
    /\ chains = <<>>
    /\ status = "new"

Usable == status \in {"registered", "returned"} /\ result.op = "none"

BuildRequiredSpace ==
    /\ status = "new"
    /\ \E reqs \in RequirementValues :
          LET out == build_required_space(reqs, original_space)
          IN  /\ requirements' = reqs
              /\ status' = IF out.raised = "none" THEN "returned" ELSE out.raised
              /\ space' = out.space
              /\ chains' = out.lists
              /\ result' = IF out.raised = "none" THEN NoResult
                            ELSE [op |-> "raised", arg |-> out.raised,
                                  val |-> out.message]
    /\ UNCHANGED <<composeVars, prev, original_space>>

Register ==
    /\ status \in {"new", "registered"}
    /\ result.op = "none"
    /\ Len(space) < Len(original_space)
    /\ \E lst \in SampleChains :
          LET dim == Space_values(original_space)[Len(space) + 1]
          IN  /\ space' = Space_register(space,
                              TransformedDimension_init(Compose_init(lst).self, dim))
              /\ chains' = Append(chains, lst)
    /\ status' = "registered"
    /\ UNCHANGED <<composeVars, result, prev, original_space, requirements>>

Record(op, arg, val) ==
    /\ result' = [op |-> op, arg |-> arg, val |-> val]
    /\ UNCHANGED <<composeVars, prev, spaceVars>>

SpaceTransform ==
    /\ Usable
    /\ \E p \in [1 .. Len(space) -> Points] :
          Record("space_transform", p, TransformedSpace_transform(space, p))

SpaceReverse ==
    /\ Usable
    /\ \E q \in [1 .. Len(space) -> Points] :
          Record("space_reverse", q, TransformedSpace_reverse(space, q))

DimTransform ==
    /\ Usable
    /\ \E i \in 1 .. Len(space), x \in Points :
          Record("transform", <<i, x>>, TransformedDimension_transform(space[i], x))

DimReverse ==
    /\ Usable
    /\ \E i \in 1 .. Len(space), y \in Points :
          Record("reverse", <<i, y>>, TransformedDimension_reverse(space[i], y))

DimInterval ==
    /\ Usable
    /\ \E i \in 1 .. Len(space) :
          Record("interval", <<i, 0>>, TransformedDimension_interval(space[i]))

DimContains ==
    /\ Usable
    /\ \E i \in 1 .. Len(space), p \in Points :
          Record("contains", <<i, p>>, TransformedDimension_contains(space[i], p))

DimType ==
    /\ Usable
    /\ \E i \in 1 .. Len(space) :
          Record("type", <<i, 0>>, TransformedDimension_type(space[i]))

DimName ==
    /\ Usable
    /\ \E i \in 1 .. Len(space) :
          Record("name", <<i, 0>>, TransformedDimension_name(space[i]))

NextSpace ==
    \/ BuildRequiredSpace
    \/ Register
    \/ SpaceTransform
    \/ SpaceReverse
    \/ DimTransform
    \/ DimReverse
    \/ DimInterval
    \/ DimContains
    \/ DimType
    \/ DimName

SpecSpace == InitSpace /\ [][NextSpace]_vars

(***************************************************************************)
(* Properties of Compose, stated against the list the caller passed.       *)
(***************************************************************************)
RECURSIVE ForwardFrom(_, _, _), BackwardFrom(_, _, _), Depth(_)

\* ts[i].transform, then ts[i+1].transform, ..., then ts[n].transform
ForwardFrom(ts, i, x) ==
    IF i > Len(ts) THEN x ELSE ForwardFrom(ts, i + 1, transform(ts[i], x))

\* ts[i].reverse, then ts[i-1].reverse, ..., then ts[1].reverse
BackwardFrom(ts, i, y) ==
    IF i < 1 THEN y ELSE BackwardFrom(ts, i - 1, reverse(ts[i], y))

\* nesting levels of a Compose chain
Depth(t) == IF t.cls = "Compose" THEN 1 + Depth(t.composition) ELSE 0

RoundTrips(t) == \A x \in Points : reverse(t, transform(t, x)) = x

LastNonInvariant(ts) ==
    LET S == {i \in 1 .. Len(ts) : target_type(ts[i]) # "invariant"}
    IN  IF S = {} THEN "invariant"
        ELSE target_type(ts[CHOOSE i \in S : \A j \in S : j <= i])

Built == composed.cls = "Compose"

\* C1: Compose([t1..tn]).transform(x) applies t1, ..., tn in list order, and
\* Compose([t1..tn]).reverse(y) applies tn.reverse, ..., t1.reverse.
C1_ComposeOrder ==
    Built =>
        /\ result.op = "transform" => result.val = ForwardFrom(given, 1, result.arg)
        /\ result.op = "reverse" => result.val = BackwardFrom(given, Len(given), result.arg)

C1_Witness ==
    /\ Built
    /\ given = <<New("Shift"), New("Quantize"), New("Mirror")>>
    /\ prev.op = "transform" /\ prev.arg = 1 /\ prev.val = 1
    /\ result.op = "reverse" /\ result.arg = 1 /\ result.val = 1

\* C2: when every transformer of the list satisfies reverse(transform(x)) = x,
\* so does the composite: reversing the result of transform(x) gives x back.
C2_ComposeRoundTrip ==
    ( /\ Built
      /\ \A i \in 1 .. Len(given) : RoundTrips(given[i])
      /\ prev.op = "transform"
      /\ result.op = "reverse"
      /\ result.arg = prev.val )
    => result.val = prev.arg

C2_Witness ==
    /\ Built
    /\ given = <<New("Shift"), New("Mirror"), New("Swap")>>
    /\ prev.op = "transform" /\ prev.arg = 0
    /\ result.op = "reverse" /\ result.arg = prev.val /\ result.val = 0

\* C3: Compose([]) can be constructed and behaves as Identity: transform,
\* reverse, infer_target_shape and repr_format return their argument, and
\* target_type is 'invariant'.
C3_EmptyComposeIsIdentity ==
    /\ (given = <<>> /\ ~Built) => ENABLED Construct
    /\ (given = <<>> /\ Built) =>
        /\ result.op \in {"transform", "reverse", "infer_target_shape", "repr_format"}
              => result.val = result.arg
        /\ result.op = "target_type" => result.val = "invariant"
        /\ \A x \in Points : transform(composed, x) = x /\ reverse(composed, x) = x

C3_Witness ==
    /\ Built
    /\ given = <<>>
    /\ prev.op = "infer_target_shape" /\ prev.val = <<2>>
    /\ result.op = "repr_format" /\ result.val = "Real(0, 3)"

\* C4: Compose(list).target_type is the target_type of the last transformer of
\* the list that is not 'invariant', and 'invariant' when there is none.
C4_ComposeTargetType ==
    (Built /\ result.op = "target_type") => result.val = LastNonInvariant(given)

C4_Witness ==
    /\ Built
    /\ Len(given) = 3
    /\ target_type(given[1]) = "real"
    /\ target_type(given[2]) = "integer"
    /\ target_type(given[3]) = "invariant"
    /\ result.op = "target_type" /\ result.val = "integer"

\* C10: the constructor consumes the caller's list: once it has returned the
\* list is empty, one element popped per nesting level of the chain.
C10_ConstructorConsumesList ==
    Built =>
        /\ transformers = <<>>
        /\ given # <<>> => Depth(composed) = Len(given)
        /\ given = <<>> => Depth(composed) = 1

C10_Witness ==
    /\ Built
    /\ Len(given) = 3
    /\ transformers = <<>>
    /\ Depth(composed) = 3

(***************************************************************************)
(* Properties of build_required_space, TransformedSpace and                *)
(* TransformedDimension.                                                   *)
(***************************************************************************)
Called == status \in {"returned", "TypeError", "IndexError"}

\* C5: with one requirement or a non-empty list of them, and an original
\* space holding a dimension of an unrecognized type at any position,
\* build_required_space raises the TypeError naming that type, nothing else,
\* and returns no space.
C5_UnsupportedTypeRaisesTypeError ==
    ( /\ Called
      /\ AsList(requirements) # <<>>
      /\ \E i \in 1 .. Len(original_space) : original_space[i].type \notin Recognized )
    => /\ status = "TypeError"
       /\ result.op = "raised"
       /\ result.val = "Unsupported dimension type 'unknown'"
       /\ space = <<>>

\* C6: with the requirement list ['invariant'] and an original space of
\* recognized dimensions, build_required_space returns a TransformedSpace
\* with one dimension per original dimension, of the original's type, whose
\* transform and reverse are the identity and whose interval is the original's.
C6_InvariantRequirementBuilds ==
    ( /\ Called
      /\ requirements = [isList |-> TRUE, value |-> <<"invariant">>]
      /\ \A i \in 1 .. Len(original_space) : original_space[i].type \in Recognized )
    => /\ status = "returned"
       /\ Len(space) = Len(original_space)
       /\ \A i \in 1 .. Len(space) :
             /\ TransformedDimension_type(space[i]) = original_space[i].type
             /\ \A x \in Points :
                   /\ TransformedDimension_transform(space[i], x) = x
                   /\ TransformedDimension_reverse(space[i], x) = x
             /\ TransformedDimension_interval(space[i])
                   = Dimension_interval(original_space[i])

\* C7: the dimensions of the TransformedSpace are those of the original
\* space, in its order, and TransformedSpace.transform / reverse apply the
\* i-th dimension's transform / reverse to the i-th coordinate.
C7_PositionalTransform ==
    /\ status \in {"registered", "returned"} =>
          /\ Len(chains) = Len(space)
          /\ \A i \in 1 .. Len(space) :
                space[i].original_dimension = Space_values(original_space)[i]
    /\ status = "returned" => Len(space) = Len(original_space)
    /\ result.op = "space_transform" =>
          /\ Len(result.val) = Len(space)
          /\ \A i \in 1 .. Len(space) :
                /\ result.val[i] = TransformedDimension_transform(space[i], result.arg[i])
                /\ result.val[i] = ForwardFrom(chains[i], 1, result.arg[i])
    /\ result.op = "space_reverse" =>
          /\ Len(result.val) = Len(space)
          /\ \A i \in 1 .. Len(space) :
                /\ result.val[i] = TransformedDimension_reverse(space[i], result.arg[i])
                /\ result.val[i] = BackwardFrom(chains[i], Len(chains[i]), result.arg[i])

C7_Witness ==
    /\ status = "registered"
    /\ Len(space) = 2
    /\ Len(original_space) = 2
    /\ chains = << <<New("Shift")>>, <<New("Mirror"), New("Identity")>> >>
    /\ result.op = "space_transform"
    /\ result.arg = <<0, 0>>
    /\ result.val = <<1, NPoints - 1>>

\* C8: a TransformedDimension's type is its transformer's target_type unless
\* that is 'invariant', and then the original dimension's type; with a
\* recognized original type it is never 'invariant'.
C8_DimensionType ==
    result.op = "type" =>
        LET i == result.arg[1]
            tt == target_type(space[i].transformer)
            orig == original_space[i].type
        IN  /\ tt = LastNonInvariant(chains[i])
            /\ tt # "invariant" => result.val = tt
            /\ tt = "invariant" => result.val = orig
            /\ orig \in Recognized => result.val \in Recognized

C8_Witness ==
    /\ result.op = "type"
    /\ chains[result.arg[1]] = <<New("Swap")>>
    /\ original_space[result.arg[1]].type = "integer"
    /\ result.val = "integer"

\* C9: p' in TransformedDimension is what the original dimension answers for
\* reverse(p'); the original is asked about the reversed point, not about p'.
C9_ContainsReversed ==
    result.op = "contains" =>
        LET i == result.arg[1]
            p == result.arg[2]
            orig_point == BackwardFrom(chains[i], Len(chains[i]), p)
        IN  result.val = Dimension_contains(original_space[i], orig_point)

C9_Witness ==
    /\ result.op = "contains"
    /\ chains[result.arg[1]] = <<New("Shift")>>
    /\ original_space[result.arg[1]].name = "b"
    /\ result.arg[2] = 1
    /\ result.val = FALSE

====
